---- MODULE Spec2Model ----
(***************************************************************************)
(* configs/configgen.py: generate_config renders a jinja2 template with    *)
(* StrictUndefined, parses the rendered text with json.loads(...,          *)
(* object_pairs_hook=OrderedDict), opens the output file with mode 'w' and *)
(* json.dump(..., indent=2)s the parsed document into it.  The module top  *)
(* level calls generate_config three times.                                *)
(*                                                                         *)
(* Text is a sequence of tokens, a token is a record [k, s, esc]:          *)
(*   k = "p"   punctuation  { } [ ] , :                                    *)
(*   k = "ws"  whitespace, s = "nl" (line break) or "sp" (one space)       *)
(*   k = "str" a double-quoted JSON string with body s; esc says that the  *)
(*             body is spelled with \uXXXX escapes                         *)
(*   k = "num" a JSON number spelled s                                     *)
(*   k = "lit" true, false, null                                           *)
(*   k = "py"  text Python's str() prints that is no JSON token: a bare    *)
(*             string, True, False, None; k = "pyq": a single-quoted string*)
(* A value (a parsed document, a context value) is a record [t, v]:        *)
(*   t = "obj" v = sequence of <<key, value>> pairs (an OrderedDict)       *)
(*   t = "arr" v = sequence of values                                      *)
(*   t = "str" | "int" | "float" | "bool" | "null", v = its canonical text *)
(***************************************************************************)
EXTENDS Integers, Sequences, FiniteSets, TLC

----------------------------------------------------------------------------
(* Tokens *)

Tok(k, s) == [k |-> k, s |-> s, esc |-> FALSE]

P(s) == Tok("p", s)

NL == Tok("ws", "nl")

SP == Tok("ws", "sp")

StrTok(s, esc) == [k |-> "str", s |-> s, esc |-> esc]

(* Values *)

Val(t, v) == [t |-> t, v |-> v]

Obj(pairs) == Val("obj", pairs)

Arr(items) == Val("arr", items)

Str(s) == Val("str", s)

EmptyDict == Obj(<<>>)

PyTrue == Val("bool", "true")

----------------------------------------------------------------------------
(* json.loads(raw_output, object_pairs_hook=OrderedDict) *)

\* whitespace between tokens is skipped
SkipWs(txt, i) ==
  LET RECURSIVE Go(_)
      Go(j) == IF j <= Len(txt) /\ txt[j].k = "ws" THEN Go(j + 1) ELSE j
  IN Go(i)

\* int(...) and float(...) of a number's spelling, as the canonical text repr() prints
NumValue(s) ==
  CASE s = "1"     -> Val("int", "1")
    [] s = "2"     -> Val("int", "2")
    [] s = "3"     -> Val("int", "3")
    [] s = "-0"    -> Val("int", "0")
    [] s = "0"     -> Val("int", "0")
    [] s = "1E2"   -> Val("float", "100.0")
    [] s = "100.0" -> Val("float", "100.0")
    [] OTHER       -> Val("int", s)

\* true, false, null
LitValue(s) == IF s = "null" THEN Val("null", "null") ELSE Val("bool", s)

\* faulty variant: a repeated key moves to the end (a delete and a fresh insert)
OrderedDictMoveToEnd(pairs) ==
  LET RECURSIVE Put(_, _)
      Put(d, n) ==
        IF n > Len(pairs) THEN d
        ELSE Put(Append(SelectSeq(d, LAMBDA kv : kv[1] # pairs[n][1]), pairs[n]), n + 1)
  IN Obj(Put(<<>>, 1))

\* OrderedDict(pairs): a repeated key keeps the position of its first occurrence and
\* takes the value of its last one
OrderedDict(pairs) ==
  LET RECURSIVE Put(_, _)
      Put(d, n) ==
        IF n > Len(pairs) THEN d
        ELSE LET kv == pairs[n]
                 at == {i \in 1..Len(d) : d[i][1] = kv[1]}
             IN IF at = {}
                  THEN Put(Append(d, kv), n + 1)
                  ELSE Put([i \in 1..Len(d) |-> IF i \in at THEN <<d[i][1], kv[2]>> ELSE d[i]],
                           n + 1)
  IN Obj(Put(<<>>, 1))

Fail == [ok |-> FALSE, val |-> Val("null", "null"), next |-> 0]

Got(v, n) == [ok |-> TRUE, val |-> v, next |-> n]

RECURSIVE ParseValue(_, _)
RECURSIVE ParseMembers(_, _, _)
RECURSIVE ParseElements(_, _, _)

\* the members of an object after "{" or after ","; i is at the next key
ParseMembers(txt, i, pairs) ==
  IF i > Len(txt) \/ txt[i].k # "str" THEN Fail
  ELSE LET c == SkipWs(txt, i + 1)
       IN IF c > Len(txt) \/ txt[c] # P(":") THEN Fail
          ELSE LET r == ParseValue(txt, SkipWs(txt, c + 1))
               IN IF ~r.ok THEN Fail
                  ELSE LET e == SkipWs(txt, r.next)
                           ps == Append(pairs, <<txt[i].s, r.val>>)
                       IN IF e > Len(txt) THEN Fail
                          ELSE IF txt[e] = P("}") THEN Got(Obj(ps), e + 1)
                          ELSE IF txt[e] = P(",") THEN ParseMembers(txt, SkipWs(txt, e + 1), ps)
                          ELSE Fail

\* the elements of an array after "[" or after ","; i is at the next value
ParseElements(txt, i, items) ==
  LET r == ParseValue(txt, i)
  IN IF ~r.ok THEN Fail
     ELSE LET e == SkipWs(txt, r.next)
              xs == Append(items, r.val)
          IN IF e > Len(txt) THEN Fail
             ELSE IF txt[e] = P("]") THEN Got(Arr(xs), e + 1)
             ELSE IF txt[e] = P(",") THEN ParseElements(txt, SkipWs(txt, e + 1), xs)
             ELSE Fail

\* one JSON value starting at token i; an object is left as the list of its pairs, in
\* the order of the text
ParseValue(txt, i) ==
  IF i > Len(txt) THEN Fail
  ELSE LET t == txt[i]
       IN CASE t.k = "str" -> Got(Str(t.s), i + 1)
            [] t.k = "num" -> Got(NumValue(t.s), i + 1)
            [] t.k = "lit" -> Got(LitValue(t.s), i + 1)
            [] t = P("{") ->
                 LET j == SkipWs(txt, i + 1)
                 IN IF j <= Len(txt) /\ txt[j] = P("}")
                      THEN Got(Obj(<<>>), j + 1)
                      ELSE ParseMembers(txt, j, <<>>)
            [] t = P("[") ->
                 LET j == SkipWs(txt, i + 1)
                 IN IF j <= Len(txt) /\ txt[j] = P("]")
                      THEN Got(Arr(<<>>), j + 1)
                      ELSE ParseElements(txt, j, <<>>)
            [] OTHER -> Fail

\* the decoder: one value, whitespace around it, nothing after it ("Extra data")
Decode(txt) ==
  LET r == ParseValue(txt, SkipWs(txt, 1))
  IN IF r.ok /\ SkipWs(txt, r.next) > Len(txt) THEN r ELSE Fail

\* object_pairs_hook: every object's list of pairs, the innermost first, is handed to
\* the hook and replaced by what it returns
RECURSIVE ObjectPairsHook(_)
ObjectPairsHook(d) ==
  CASE d.t = "obj" ->
         OrderedDict([i \in 1..Len(d.v) |-> <<d.v[i][1], ObjectPairsHook(d.v[i][2])>>])
    [] d.t = "arr" -> Arr([i \in 1..Len(d.v) |-> ObjectPairsHook(d.v[i])])
    [] OTHER -> d

\* json.loads(raw_output, object_pairs_hook=OrderedDict)
Loads(txt) ==
  LET r == Decode(txt)
  IN IF r.ok THEN Got(ObjectPairsHook(r.val), r.next) ELSE Fail

----------------------------------------------------------------------------
(* json.dump(output, fh, indent=2) *)

\* ensure_ascii: a string with a non-ASCII character is written with \uXXXX escapes
NonAscii == {"e_acute"}

DumpStr(s) == StrTok(s, s \in NonAscii)

Indent(depth) == [i \in 1..(2 * depth) |-> SP]

RECURSIVE Dumps(_, _)
RECURSIVE DumpItems(_, _, _)

\* faulty variant: the item separator is left out
DumpItemsNoComma(d, n, depth) ==
  LET x == d.v[n]
      head == IF d.t = "obj"
                THEN <<DumpStr(x[1]), P(":"), SP>> \o Dumps(x[2], depth)
                ELSE Dumps(x, depth)
  IN <<NL>> \o Indent(depth) \o head \o
     (IF n < Len(d.v) THEN DumpItems(d, n + 1, depth) ELSE <<>>)

\* the items of a non-empty container from item n on, each on its own line, indented
\* by two spaces a level, "," between items and ": " after a key
DumpItems(d, n, depth) ==
  LET x == d.v[n]
      head == IF d.t = "obj"
                THEN <<DumpStr(x[1]), P(":"), SP>> \o Dumps(x[2], depth)
                ELSE Dumps(x, depth)
  IN <<NL>> \o Indent(depth) \o head \o
     (IF n < Len(d.v) THEN <<P(",")>> \o DumpItems(d, n + 1, depth) ELSE <<>>)

Dumps(d, depth) ==
  CASE d.t = "obj" ->
         IF d.v = <<>> THEN <<P("{"), P("}")>>
         ELSE <<P("{")>> \o DumpItems(d, 1, depth + 1) \o <<NL>> \o Indent(depth) \o <<P("}")>>
    [] d.t = "arr" ->
         IF d.v = <<>> THEN <<P("["), P("]")>>
         ELSE <<P("[")>> \o DumpItems(d, 1, depth + 1) \o <<NL>> \o Indent(depth) \o <<P("]")>>
    [] d.t = "str" -> <<DumpStr(d.v)>>
    [] d.t \in {"int", "float"} -> <<Tok("num", d.v)>>
    [] OTHER -> <<Tok("lit", d.v)>>

----------------------------------------------------------------------------
(* The module-level demo tables, lines 20-73 *)

front_envoy_clusters ==
  Obj(<< <<"service1", EmptyDict>>, <<"service2", EmptyDict>>, <<"service3", EmptyDict>> >>)

service_to_service_envoy_clusters ==
  Obj(<< <<"ratelimit", EmptyDict>>, <<"service1", EmptyDict>>, <<"service3", EmptyDict>> >>)

external_virtual_hosts ==
  Arr(<< Obj(<< <<"name", Str("dynamodb_iad")>>,
               <<"address", Str("tcp://127.0.0.1:9204")>>,
               <<"hosts", Arr(<< Obj(<< <<"name", Str("dynamodb_iad")>>,
                                       <<"domain", Str("*")>>,
                                       <<"remote_address", Str("dynamodb.us-east-1.amazonaws.com:443")>>,
                                       <<"verify_subject_alt_name",
                                         Arr(<<Str("dynamodb.us-east-1.amazonaws.com")>>)>>,
                                       <<"ssl", PyTrue>> >>) >>)>>,
               <<"is_amzn_service", PyTrue>>,
               <<"cluster_type", Str("logical_dns")>> >>) >>)

mongos_servers ==
  Obj(<< <<"somedb",
           Obj(<< <<"address", Str("tcp://127.0.0.1:27019")>>,
                  <<"hosts", Arr(<< Str("router1.yourcompany.net:27817"),
                                    Str("router2.yourcompany.net:27817"),
                                    Str("router3.yourcompany.net:27817"),
                                    Str("router4.yourcompany.net:27817") >>)>>,
                  <<"ratelimit", PyTrue>> >>)>> >>)

\* the tables as the module body binds them when the script is loaded
ModuleTables ==
  [front_envoy_clusters |-> front_envoy_clusters,
   service_to_service_envoy_clusters |-> service_to_service_envoy_clusters,
   external_virtual_hosts |-> external_virtual_hosts,
   mongos_servers |-> mongos_servers]

----------------------------------------------------------------------------
(* jinja2: env.get_template(template).render(context) with StrictUndefined *)

\* a template is a sequence of items:
\*   "lit"   literal template text, one token
\*   "var"   {{ key }}
\*   "ifdef" {% if key is defined %} body {% endif %}
\*   "for"   {% for name in key %}"{{ name }}"{% if not loop.last %}, {% endif %}{% endfor %}
Lit(tok) == [t |-> "lit", tok |-> tok, key |-> "", body |-> <<>>]

Var(key) == [t |-> "var", tok |-> SP, key |-> key, body |-> <<>>]

IfDef(key, body) == [t |-> "ifdef", tok |-> SP, key |-> key, body |-> body]

ForNames(key) == [t |-> "for", tok |-> SP, key |-> key, body |-> <<>>]

Lits(txt) == [i \in 1..Len(txt) |-> Lit(txt[i])]

\* {{ value }} prints str(value): Python's repr of a dict or a list, with its strings in
\* single quotes and its booleans capitalised; a string itself is printed bare
RECURSIVE PyRepr(_)
RECURSIVE PyReprItems(_, _)

PyReprItems(d, n) ==
  LET x == d.v[n]
      head == IF d.t = "obj"
                THEN <<Tok("pyq", x[1]), P(":"), SP>> \o PyRepr(x[2])
                ELSE PyRepr(x)
  IN head \o (IF n < Len(d.v) THEN <<P(","), SP>> \o PyReprItems(d, n + 1) ELSE <<>>)

PyRepr(d) ==
  CASE d.t = "obj" -> <<P("{")>> \o (IF d.v = <<>> THEN <<>> ELSE PyReprItems(d, 1)) \o <<P("}")>>
    [] d.t = "arr" -> <<P("[")>> \o (IF d.v = <<>> THEN <<>> ELSE PyReprItems(d, 1)) \o <<P("]")>>
    [] d.t = "str" -> <<Tok("pyq", d.v)>>
    [] d.t \in {"int", "float"} -> <<Tok("num", d.v)>>
    [] d.t = "bool" -> <<Tok("py", IF d.v = "true" THEN "True" ELSE "False")>>
    [] OTHER -> <<Tok("py", "None")>>

PyStr(d) == IF d.t = "str" THEN <<Tok("py", d.v)>> ELSE PyRepr(d)

\* iterating a dict yields its keys, iterating a list its elements; "{{ name }}" puts
\* str(name) between double quotes (str of a dict or list stands as one opaque body)
LoopNames(d) ==
  [i \in 1..Len(d.v) |->
     IF d.t = "obj" THEN d.v[i][1] ELSE IF d.v[i].t = "str" THEN d.v[i].v ELSE "py_repr"]

RECURSIVE Joined(_, _)
Joined(names, n) ==
  IF n > Len(names) THEN <<>>
  ELSE <<StrTok(names[n], FALSE)>> \o
       (IF n < Len(names) THEN <<P(","), SP>> \o Joined(names, n + 1) ELSE <<>>)

\* the template source loses one trailing line break (keep_trailing_newline is off)
StripTrailingNewline(items) ==
  IF items # <<>> /\ items[Len(items)] = Lit(NL) THEN SubSeq(items, 1, Len(items) - 1) ELSE items

\* render(context): items are evaluated left to right; printing an undefined name raises
\* UndefinedError (StrictUndefined), the "defined" test of it does not
RECURSIVE RenderItems(_, _, _)
RenderItems(items, n, context) ==
  IF n > Len(items) THEN [ok |-> TRUE, text |-> <<>>]
  ELSE LET it == items[n]
           one == CASE it.t = "lit" -> [ok |-> TRUE, text |-> <<it.tok>>]
                    [] it.t = "var" ->
                         IF it.key \in DOMAIN context
                           THEN [ok |-> TRUE, text |-> PyStr(context[it.key])]
                           ELSE [ok |-> FALSE, text |-> <<>>]
                    [] it.t = "for" ->
                         IF it.key \in DOMAIN context /\ context[it.key].t \in {"obj", "arr"}
                           THEN [ok |-> TRUE, text |-> Joined(LoopNames(context[it.key]), 1)]
                           ELSE [ok |-> FALSE, text |-> <<>>]
                    [] OTHER ->
                         IF it.key \in DOMAIN context
                           THEN RenderItems(it.body, 1, context)
                           ELSE [ok |-> TRUE, text |-> <<>>]
       IN IF ~one.ok THEN [ok |-> FALSE, text |-> <<>>]
          ELSE LET rest == RenderItems(items, n + 1, context)
               IN IF rest.ok THEN [ok |-> TRUE, text |-> one.text \o rest.text]
                  ELSE [ok |-> FALSE, text |-> <<>>]

\* faulty variant: the default Undefined, which prints as nothing and iterates as empty
RECURSIVE DropUndefined(_, _)
DropUndefined(items, context) ==
  IF items = <<>> THEN <<>>
  ELSE LET it == items[1]
           rest == DropUndefined(Tail(items), context)
       IN IF it.t \in {"var", "for"} /\ it.key \notin DOMAIN context THEN rest
          ELSE IF it.t = "ifdef" THEN <<IfDef(it.key, DropUndefined(it.body, context))>> \o rest
          ELSE <<it>> \o rest

RenderLenient(items, context) ==
  RenderItems(DropUndefined(StripTrailingNewline(items), context), 1, context)

Render(items, context) == RenderItems(StripTrailingNewline(items), 1, context)

----------------------------------------------------------------------------
(* The file system *)

NoFile == [exists |-> FALSE, data |-> <<>>]

File(data) == [exists |-> TRUE, data |-> data]

\* faulty variant: mode 'a', the file keeps what it holds
OpenForAppending(fs, f) == [fs EXCEPT ![f] = File(@.data)]

\* faulty variant: the output directory is made anew for every call
OpenForWritingClobber(fs, f) == [n \in DOMAIN fs |-> IF n = f THEN File(<<>>) ELSE NoFile]

\* open(output_file, 'w'): the file is created, or truncated to length zero
OpenForWriting(fs, f) == [fs EXCEPT ![f] = File(<<>>)]

\* faulty variant: the last chunk never leaves the buffer (the file is not closed)
WriteChunksUnflushed(fs, f, txt) ==
  [fs EXCEPT ![f] = File(@.data \o SubSeq(txt, 1, Len(txt) - 1))]

\* fh.write(chunk) for the chunks json.dump yields: appended at the file position
WriteChunks(fs, f, txt) == [fs EXCEPT ![f] = File(@.data \o txt)]

----------------------------------------------------------------------------
(* The three calls of the module top level, lines 87-107 *)

Script ==
  << [template |-> "envoy_front_proxy.template.json", output_file |-> "envoy_front_proxy.json"],
     [template |-> "envoy_double_proxy.template.json", output_file |-> "envoy_double_proxy.json"],
     [template |-> "envoy_service_to_service.template.json",
      output_file |-> "envoy_service_to_service.json"] >>

NumCalls == Len(Script)

TemplateNames == {Script[k].template : k \in 1..NumCalls}

OutputNames == {Script[k].output_file : k \in 1..NumCalls}

\* the keyword arguments of call k, bound to the module tables
ScriptContext(k, tb) ==
  CASE k = 1 -> [clusters |-> tb.front_envoy_clusters]
    [] k = 2 -> <<>>
    [] OTHER -> [internal_virtual_hosts |-> tb.service_to_service_envoy_clusters,
                 external_virtual_hosts |-> tb.external_virtual_hosts,
                 mongos_servers |-> tb.mongos_servers]

----------------------------------------------------------------------------
(* Inputs: the template files and the prior state of the output files *)

MaxNodes == 3

MaxSlipNodes == 2

MaxRuns == 2

PriorLen == 8

ScalarToks == {Tok("num", "1"), Tok("num", "1E2"), StrTok("e_acute", FALSE)}

KeyToks == {StrTok("b", FALSE), StrTok("a", FALSE)}

\* the JSON texts of n nodes (a scalar or a container is one node), written the way a
\* template author writes them: "key": value, items separated by ","
RECURSIVE Texts(_)
RECURSIVE Elements(_)
RECURSIVE Members(_)

Elements(n) ==
  UNION {{t \o (IF k = n THEN <<>> ELSE <<P(",")>> \o r) :
            t \in Texts(k), r \in (IF k = n THEN {<<>>} ELSE Elements(n - k))} : k \in 1..n}

Members(n) ==
  UNION {{<<key, P(":"), SP>> \o t \o (IF k = n THEN <<>> ELSE <<P(",")>> \o r) :
            key \in KeyToks, t \in Texts(k),
            r \in (IF k = n THEN {<<>>} ELSE Members(n - k))} : k \in 1..n}

Texts(n) ==
  (IF n = 1 THEN {<<s>> : s \in ScalarToks} ELSE {})
  \cup {<<P("[")>> \o e \o <<P("]")>> : e \in (IF n = 1 THEN {<<>>} ELSE Elements(n - 1))}
  \cup {<<P("{")>> \o m \o <<P("}")>> : m \in (IF n = 1 THEN {<<>>} ELSE Members(n - 1))}

WellFormed == UNION {Texts(n) : n \in 1..MaxNodes}

\* a text with one token lost: the slips of template writing (a missing comma, bracket,
\* value or key)
DropAt(txt, i) == SubSeq(txt, 1, i - 1) \o SubSeq(txt, i + 1, Len(txt))

Slips ==
  UNION {{DropAt(t, i) : i \in 1..Len(t)} : t \in UNION {Texts(n) : n \in 1..MaxSlipNodes}}

\* hand-written texts: a trailing comma, a missing comma, text after the document, a
\* repeated key in a nested mapping, a document written on several lines
Handwritten ==
  { <<P("["), Tok("num", "1"), P(","), P("]")>>,
    <<P("["), Tok("num", "1"), SP, Tok("num", "1"), P("]")>>,
    <<P("{"), P("}"), P("}")>>,
    <<P("["), P("{"), StrTok("b", FALSE), P(":"), Tok("num", "1"), P(","),
      StrTok("a", FALSE), P(":"), Tok("num", "2"), P(","),
      StrTok("b", TRUE), P(":"), Tok("num", "3"), P("}"), P("]")>>,
    <<P("{"), NL, SP, StrTok("b", FALSE), SP, P(":"), NL, Tok("lit", "true"), NL, P("}"), NL, NL>> }

TemplateKeys == {"clusters", "mongos_servers"}

\* templates with placeholders
Placeholders ==
  UNION {{ <<Lit(P("[")), ForNames(k), Lit(P("]")), Lit(NL)>>,
           <<Lit(P("[")), Var(k), Lit(P("]"))>>,
           <<Lit(P("[")), IfDef(k, <<ForNames(k)>>), Lit(P("]"))>>,
           <<Lit(P("[")), IfDef("clusters", <<Var(k)>>), Lit(P("]"))>>,
           <<Lit(P("{")), Lit(StrTok("b", FALSE)), Lit(P(":")), Lit(P("[")), ForNames(k), Lit(P("]")),
             Lit(P(",")), Lit(StrTok("a", FALSE)), Lit(P(":")), Lit(Tok("num", "-0")),
             Lit(P(",")), Lit(StrTok("b", TRUE)), Lit(P(":")), Lit(Tok("lit", "null")),
             Lit(P("}")), Lit(NL)>> } : k \in TemplateKeys}

Templates == {Lits(t) : t \in WellFormed \cup Slips \cup Handwritten} \cup Placeholders

\* the few templates the runs of the whole script are checked with
ScriptTemplates ==
  { Lits(<<P("{"), StrTok("b", FALSE), P(":"), SP, Tok("num", "1E2"), P(","),
           StrTok("a", FALSE), P(":"), SP, P("["), P("]"), P("}"), NL>>),
    Lits(<<P("["), Tok("num", "1"), P(","), P("]")>>),
    <<Lit(P("[")), ForNames("clusters"), Lit(P("]")), Lit(NL)>>,
    <<Lit(P("[")), IfDef("mongos_servers", <<ForNames("mongos_servers")>>), Lit(P("]"))>> }

\* what an output file holds before the run: nothing, or text of an earlier use, longer
\* than some of the serializations and shorter than others
Old == Tok("py", "old")

PriorFiles == {NoFile, File([i \in 1..PriorLen |-> Old])}

----------------------------------------------------------------------------
(* State *)

VARIABLES
  template_dir,   \* the files under template_path, by name: NoFile or File(items)
  files,          \* the output files, by name: NoFile or File(text)
  writable,       \* the output paths open(..., 'w') succeeds on
  tables,         \* the module-level demo tables
  run,            \* which execution of the script this is (0: a call on its own)
  pc,             \* the call of the script that is next or running (NumCalls + 1: past the last)
  status,         \* "running", "exited" (end of script), "failed" (uncaught exception)
  stage,          \* where generate_config is
  args,           \* its arguments: template, output_file, context
  tmpl,           \* the loaded template
  raw_output,     \* the rendered text
  output,         \* the parsed document
  error,          \* the exception the call raised, or "none"
  pre,            \* history: files when the call began
  run_pre,        \* history: files when the run began
  trace,          \* history: the stages the call has gone through
  started,        \* history: the calls this run has started, in order
  log             \* history: the calls that have ended

vars == <<template_dir, files, writable, tables, run, pc, status, stage, args, tmpl,
          raw_output, output, error, pre, run_pre, trace, started, log>>

env == <<template_dir, writable>>

locals == <<tmpl, raw_output, output>>

NoDoc == Val("null", "unset")

NoArgs == [template |-> "", output_file |-> "", context |-> <<>>]

Stages == <<"get_template", "render", "loads", "open", "dump">>

\* what the log keeps of a call that ended: its arguments, the template text it loaded,
\* its outcome and what its output file holds
Entry(outcome, loaded, file) ==
  [run |-> run, call |-> pc, template |-> args.template, context |-> args.context,
   output_file |-> args.output_file, loaded |-> loaded, outcome |-> outcome, file |-> file]

----------------------------------------------------------------------------
(* generate_config, lines 75-83, stage by stage *)

Raise(e) ==
  /\ error' = e
  /\ stage' = "raised"
  /\ log' = Append(log, Entry(e, tmpl, files'[args.output_file]))

Enter(st) ==
  /\ stage = st
  /\ trace' = Append(trace, st)
  /\ UNCHANGED <<env, tables, run, pc, status, args, pre, run_pre, started>>

\* line 79, env.get_template(template): the loader finds the file under template_path
GetTemplate ==
  /\ Enter("get_template")
  /\ template_dir[args.template].exists
  /\ tmpl' = template_dir[args.template].data
  /\ stage' = "render"
  /\ UNCHANGED <<files, raw_output, output, error, log>>

\* line 79: TemplateNotFound
GetTemplateFails ==
  /\ Enter("get_template")
  /\ ~template_dir[args.template].exists
  /\ UNCHANGED <<files, locals>>
  /\ Raise("TemplateNotFound")

\* line 79, .render(context)
RenderTemplate ==
  /\ Enter("render")
  /\ Render(tmpl, args.context).ok
  /\ raw_output' = Render(tmpl, args.context).text
  /\ stage' = "loads"
  /\ UNCHANGED <<files, tmpl, output, error, log>>

\* line 79: UndefinedError
RenderFails ==
  /\ Enter("render")
  /\ ~Render(tmpl, args.context).ok
  /\ UNCHANGED <<files, locals>>
  /\ Raise("UndefinedError")

\* line 81, json.loads
LoadsOutput ==
  /\ Enter("loads")
  /\ Loads(raw_output).ok
  /\ output' = Loads(raw_output).val
  /\ stage' = "open"
  /\ UNCHANGED <<files, tmpl, raw_output, error, log>>

\* faulty variant: the output file is opened before the rendered text is parsed
LoadsFailsAfterOpen ==
  /\ Enter("loads")
  /\ ~Loads(raw_output).ok
  /\ files' = IF args.output_file \in writable
                THEN OpenForWriting(files, args.output_file) ELSE files
  /\ UNCHANGED locals
  /\ Raise("ValueError")

\* line 81: ValueError
LoadsFails ==
  /\ Enter("loads")
  /\ ~Loads(raw_output).ok
  /\ UNCHANGED <<files, locals>>
  /\ Raise("ValueError")

\* line 82, open(output_file, 'w')
OpenOutput ==
  /\ Enter("open")
  /\ args.output_file \in writable
  /\ files' = OpenForWriting(files, args.output_file)
  /\ stage' = "dump"
  /\ UNCHANGED <<locals, error, log>>

\* faulty variant: a failed open is tried again
OpenFailsRetried ==
  /\ Enter("open")
  /\ args.output_file \notin writable
  /\ stage' = "open"
  /\ UNCHANGED <<files, locals, error, log>>

\* line 82: IOError, the path cannot be opened for writing
OpenFails ==
  /\ Enter("open")
  /\ args.output_file \notin writable
  /\ UNCHANGED <<files, locals>>
  /\ Raise("IOError")

\* line 83, json.dump(output, fh, indent=2), and the end of the with block: the file
\* is closed and the call returns
DumpOutput ==
  /\ Enter("dump")
  /\ files' = WriteChunks(files, args.output_file, Dumps(output, 0))
  /\ stage' = "returned"
  /\ log' = Append(log, Entry("none", tmpl, files'[args.output_file]))
  /\ UNCHANGED <<locals, error>>

\* line 83: a write fails (the device is full, an I/O error) after n tokens have reached
\* the file; the with block closes the file and the IOError propagates
DumpFails ==
  /\ Enter("dump")
  /\ \E n \in 0..(Len(Dumps(output, 0)) - 1) :
       files' = WriteChunks(files, args.output_file, SubSeq(Dumps(output, 0), 1, n))
  /\ Raise("IOError")
  /\ UNCHANGED locals

generate_config ==
  \/ GetTemplate \/ GetTemplateFails
  \/ RenderTemplate \/ RenderFails
  \/ LoadsOutput \/ LoadsFails
  \/ OpenOutput \/ OpenFails
  \/ DumpOutput \/ DumpFails

----------------------------------------------------------------------------
(* The script, lines 87-107 *)

\* the statement at pc: generate_config is called with the script's arguments
StartCall ==
  /\ status = "running" /\ stage = "idle" /\ pc \in 1..NumCalls
  /\ args' = [template |-> Script[pc].template, output_file |-> Script[pc].output_file,
              context |-> ScriptContext(pc, tables)]
  /\ stage' = "get_template"
  /\ tmpl' = <<>> /\ raw_output' = <<>> /\ output' = NoDoc /\ error' = "none"
  /\ pre' = files
  /\ trace' = <<>>
  /\ started' = Append(started, pc)
  /\ UNCHANGED <<env, files, tables, run, pc, status, run_pre, log>>

\* the call returned: the next statement, or the end of the script
Continue ==
  /\ status = "running" /\ stage = "returned"
  /\ pc' = pc + 1
  /\ stage' = "idle"
  /\ status' = IF pc = NumCalls THEN "exited" ELSE "running"
  /\ UNCHANGED <<env, files, tables, run, args, locals, error, pre, run_pre, trace, started, log>>

\* faulty variant: the exception is caught and the script goes on with the next call
AbortSwallowed ==
  /\ status = "running" /\ stage = "raised"
  /\ pc' = pc + 1
  /\ stage' = "idle"
  /\ status' = IF pc = NumCalls THEN "exited" ELSE "running"
  /\ UNCHANGED <<env, files, tables, run, args, locals, error, pre, run_pre, trace, started, log>>

\* the call raised: nothing catches the exception, the interpreter exits
Abort ==
  /\ status = "running" /\ stage = "raised"
  /\ status' = "failed"
  /\ UNCHANGED <<env, files, tables, run, pc, stage, args, locals, error, pre, run_pre, trace,
                 started, log>>

\* the script, having run to its end, is run again on the files it left
RunAgain ==
  /\ status = "exited" /\ run < MaxRuns
  /\ run' = run + 1
  /\ pc' = 1
  /\ status' = "running"
  /\ stage' = "idle"
  /\ tables' = ModuleTables
  /\ args' = NoArgs
  /\ tmpl' = <<>> /\ raw_output' = <<>> /\ output' = NoDoc /\ error' = "none"
  /\ pre' = files /\ run_pre' = files
  /\ trace' = <<>> /\ started' = <<>>
  /\ UNCHANGED <<env, files, log>>

InitLocals ==
  /\ tables = ModuleTables
  /\ tmpl = <<>> /\ raw_output = <<>> /\ output = NoDoc /\ error = "none"
  /\ pre = files /\ run_pre = files
  /\ trace = <<>> /\ started = <<>> /\ log = <<>>

\* the script starts, in a template directory and an output directory of any content
Init ==
  /\ template_dir \in [TemplateNames -> {NoFile} \cup {File(t) : t \in ScriptTemplates}]
  /\ files \in [OutputNames -> PriorFiles]
  /\ writable \in SUBSET OutputNames
  /\ run = 1 /\ pc = 1 /\ status = "running" /\ stage = "idle"
  /\ args = NoArgs
  /\ InitLocals

Next == generate_config \/ StartCall \/ Continue \/ Abort \/ RunAgain

Spec == Init /\ [][Next]_vars

\* one call of generate_config on its own, with any template, the context of the
\* script's first or second call (clusters, or nothing) and any prior output file
InitCall ==
  /\ \E t \in {NoFile} \cup {File(t) : t \in Templates} :
       template_dir = [n \in TemplateNames |-> IF n = Script[1].template THEN t ELSE NoFile]
  /\ \E f \in PriorFiles :
       files = [n \in OutputNames |-> IF n = Script[1].output_file THEN f ELSE NoFile]
  /\ writable \in {{}, OutputNames}
  /\ run = 0 /\ pc = 0 /\ status = "running" /\ stage = "get_template"
  /\ \E k \in 1..2 :
       args = [template |-> Script[1].template, output_file |-> Script[1].output_file,
               context |-> ScriptContext(k, ModuleTables)]
  /\ InitLocals

SpecCall == InitCall /\ [][generate_config]_vars

----------------------------------------------------------------------------
(* Properties *)

Range(seq) == {seq[i] : i \in 1..Len(seq)}

Ended == stage \in {"returned", "raised"}

\* the template file the call names
Named == template_dir[args.template]

\* the keys a template mentions anywhere
RECURSIVE References(_)
References(items) ==
  UNION {IF items[i].t = "lit" THEN {}
         ELSE {items[i].key} \cup References(items[i].body) : i \in 1..Len(items)}

\* the keys whose value rendering asks for: printed or iterated, outside every
\* {% if ... is defined %} block whose test is false
RECURSIVE Evaluated(_, _)
Evaluated(items, context) ==
  UNION {CASE items[i].t = "lit" -> {}
           [] items[i].t = "ifdef" ->
                IF items[i].key \in DOMAIN context THEN Evaluated(items[i].body, context) ELSE {}
           [] OTHER -> {items[i].key} : i \in 1..Len(items)}

\* C1 as stated: a call whose template references a context key that is absent from
\* context fails with UndefinedError and leaves every file as it was
C1_ReferencedKeyAbsentFails ==
  (Ended /\ Named.exists /\ ~(References(Named.data) \subseteq DOMAIN args.context))
    => (error = "UndefinedError" /\ files = pre)

\* C1, amended: a call whose rendering evaluates (prints or iterates) a context key that
\* is absent from context fails with UndefinedError and leaves every file as it was
C1_EvaluatedKeyAbsentFails ==
  (Ended /\ Named.exists /\ ~(Evaluated(Named.data, args.context) \subseteq DOMAIN args.context))
    => (error = "UndefinedError" /\ files = pre)

C1_Witness ==
  /\ stage = "raised" /\ error = "UndefinedError"
  /\ ~(Evaluated(Named.data, args.context) \subseteq DOMAIN args.context)
  /\ files[args.output_file].exists /\ args.output_file \in writable

\* C2: a call whose rendered text is not valid JSON fails with ValueError before the
\* output file is opened, and leaves every file as it was
C2_InvalidJsonFails ==
  (Ended /\ "loads" \in Range(trace) /\ ~Decode(raw_output).ok)
    => (error = "ValueError" /\ "open" \notin Range(trace) /\ files = pre)

C2_Witness ==
  /\ stage = "raised" /\ error = "ValueError" /\ ~Decode(raw_output).ok
  /\ files[args.output_file].exists /\ args.output_file \in writable

\* C3: after a call returns, the output file parses to the document the rendered text
\* parses to
C3_RoundTrip ==
  stage = "returned"
    => /\ Loads(files[args.output_file].data).ok
       /\ Loads(files[args.output_file].data).val = Loads(raw_output).val

C3_Witness ==
  /\ stage = "returned"
  /\ \E i \in 1..Len(raw_output) : raw_output[i] = Tok("num", "1E2")
  /\ \E i \in 1..Len(raw_output) : raw_output[i] = StrTok("e_acute", FALSE)
  /\ Loads(raw_output).val.t = "obj"
  /\ files[args.output_file].data # raw_output

\* the keys of a list of pairs in the order each is first seen
FirstSeen(pairs) ==
  LET keep == {i \in 1..Len(pairs) : \A j \in 1..(i - 1) : pairs[j][1] # pairs[i][1]}
      RECURSIVE Pick(_)
      Pick(i) == IF i > Len(pairs) THEN <<>>
                 ELSE (IF i \in keep THEN <<pairs[i][1]>> ELSE <<>>) \o Pick(i + 1)
  IN Pick(1)

\* the value a key has in a list of pairs: that of its last occurrence
LastValue(pairs, key) ==
  pairs[CHOOSE i \in 1..Len(pairs) :
          pairs[i][1] = key /\ \A j \in (i + 1)..Len(pairs) : pairs[j][1] # key][2]

\* written (decoded from the output file, pairs as they stand in the file) has, in every
\* mapping at every depth, the keys of rendered (decoded from the rendered text) in
\* first-seen order, each key once
RECURSIVE KeysInFirstSeenOrder(_, _)
KeysInFirstSeenOrder(rendered, written) ==
  /\ written.t = rendered.t
  /\ CASE rendered.t = "obj" ->
            /\ [i \in 1..Len(written.v) |-> written.v[i][1]] = FirstSeen(rendered.v)
            /\ \A i \in 1..Len(written.v) :
                 KeysInFirstSeenOrder(LastValue(rendered.v, written.v[i][1]), written.v[i][2])
       [] rendered.t = "arr" ->
            /\ Len(written.v) = Len(rendered.v)
            /\ \A i \in 1..Len(written.v) : KeysInFirstSeenOrder(rendered.v[i], written.v[i])
       [] OTHER -> TRUE

\* C4: in the written file the keys of every mapping, at every depth, stand in the
\* order in which the rendered text first shows them, also when the text repeats a key
C4_FirstSeenKeyOrder ==
  stage = "returned"
    => /\ Decode(files[args.output_file].data).ok
       /\ KeysInFirstSeenOrder(Decode(raw_output).val, Decode(files[args.output_file].data).val)

\* a nested mapping with keys b, a, b: the repeated key comes last in the text and first
\* in the file
C4_Witness ==
  /\ stage = "returned"
  /\ Decode(raw_output).val.t = "arr"
  /\ Decode(raw_output).val.v # <<>>
  /\ Decode(raw_output).val.v[1].t = "obj"
  /\ [i \in 1..Len(Decode(raw_output).val.v[1].v) |-> Decode(raw_output).val.v[1].v[i][1]]
       = <<"b", "a", "b">>
  /\ output.v[1].v[1][1] = "b"

\* C5: after a call returns, the output file holds the serialization of the parsed
\* document and nothing else, whatever it held before
C5_FileIsSerialization ==
  stage = "returned" => files[args.output_file] = File(Dumps(output, 0))

\* the file held more than the serialization is long
C5_Witness ==
  /\ stage = "returned"
  /\ pre[args.output_file].exists
  /\ Len(pre[args.output_file].data) > Len(Dumps(output, 0))
  /\ Len(Dumps(output, 0)) > 2

\* failure conditions of a call
OutputInvalid ==
  /\ Named.exists
  /\ Render(Named.data, args.context).ok
  /\ ~Decode(Render(Named.data, args.context).text).ok

Unwritable == args.output_file \notin writable

\* C9: each failure condition has its own error; a call that shows several reports the
\* earliest in the order template, context, parse, open; no stage is entered twice
C9_EarliestErrorOnce ==
  /\ trace = SubSeq(Stages, 1, Len(trace))
  /\ Ended =>
       IF ~Named.exists
         THEN error = "TemplateNotFound" /\ trace = <<"get_template">>
         ELSE LET r == Render(Named.data, args.context)
              IN IF ~r.ok
                   THEN error = "UndefinedError" /\ trace = <<"get_template", "render">>
                   ELSE IF ~Decode(r.text).ok
                     THEN error = "ValueError" /\ trace = <<"get_template", "render", "loads">>
                     ELSE IF Unwritable
                       THEN error = "IOError" /\ trace = <<"get_template", "render", "loads", "open">>
                       ELSE /\ Len(trace) = 5
                            /\ error = (IF stage = "raised" THEN "IOError" ELSE "none")

\* an invalid rendered text and an unwritable path at once
C9_Witness ==
  /\ stage = "raised" /\ OutputInvalid /\ Unwritable /\ error = "ValueError"

\* C10: when a call has ended, its output file is as it was before the call or holds
\* the complete serialization of the parsed document
C10_NoPartialFile ==
  Ended => \/ files[args.output_file] = pre[args.output_file]
           \/ /\ "loads" \in Range(trace) /\ Decode(raw_output).ok
              /\ files[args.output_file] = File(Dumps(Loads(raw_output).val, 0))

\* the calls of this run that have ended
ThisRun == SelectSeq(log, LAMBDA e : e.run = run)

\* C6: the calls run in the order 1, 2, 3, one at a time; a call that fails is the last
\* thing the run does (no later call is started, none is tried again); the output files
\* of the calls not yet started are as the run found them, those of the calls that
\* ended are as these calls left them
C6_InOrderFailFast ==
  /\ started = [i \in 1..Len(started) |-> i]
  /\ Len(started) = (IF stage = "idle" THEN pc - 1 ELSE pc)
  /\ Len(ThisRun) = (IF Ended THEN pc ELSE pc - 1)
  /\ \A i \in 1..Len(ThisRun) :
       /\ ThisRun[i].call = i
       /\ files[ThisRun[i].output_file] = ThisRun[i].file
       /\ ThisRun[i].outcome # "none" => (i = Len(ThisRun) /\ stage = "raised" /\ pc = i)
  /\ \A k \in 1..NumCalls :
       k \notin Range(started) => files[Script[k].output_file] = run_pre[Script[k].output_file]
  /\ status = "failed" => stage = "raised"
  /\ status = "exited" => Len(ThisRun) = NumCalls

\* the second call failed after the first rewrote its file; the third file still holds
\* what it held
C6_Witness ==
  /\ status = "failed" /\ pc = 2
  /\ files[Script[1].output_file] # run_pre[Script[1].output_file]
  /\ files[Script[3].output_file].exists

\* C7: two calls that load the same template text and are given the same context, and
\* return, leave the same text in their output files
C7_SameInputSameFile ==
  \A i, j \in 1..Len(log) :
    (/\ log[i].outcome = "none" /\ log[j].outcome = "none"
     /\ log[i].loaded = log[j].loaded /\ log[i].context = log[j].context)
      => log[i].file = log[j].file

\* a call of the second run repeats one of the first, over an output file that had
\* other content before the first
C7_Witness ==
  \E i, j \in 1..Len(log) :
    /\ i < j /\ log[i].outcome = "none" /\ log[j].outcome = "none"
    /\ log[i].loaded = log[j].loaded /\ log[i].context = log[j].context
    /\ log[i].context # <<>>
    /\ Len(log[i].file.data) > 2

InCall == stage \in Range(Stages)

====
